---- MODULE Spec2Model ----
(***************************************************************************)
(* A model of hinohi/rust-compress: the bit-packed vector BitVec           *)
(* (src/src/bit_vec.rs) and the static Huffman coder built on it           *)
(* (src/src/huffman.rs).                                                   *)
(*                                                                         *)
(* Rust's Option<T> is a sequence of length 0 (None) or 1 (Some(x)).       *)
(* Rust's 0-based indices are kept as they are; a Vec is a TLA+ sequence,  *)
(* so vec[i] in the source is vec[i + 1] here.                             *)
(***************************************************************************)
EXTENDS Integers, Sequences, FiniteSets, TLC

VARIABLES
    pc,        \* where the caller of the library stands
    \* ---- bit_vec.rs
    v,         \* the BitVec being built: [bit, data]
    cap,       \* bytes reserved by with_capacity for v
    bits,      \* history: the bits v holds, in push order
    src,       \* split_rest: the BitVec it consumed
    rest,      \* split_rest: first component of the result
    last,      \* split_rest: second component of the result
    bytes,     \* into_bytes: the Vec<u8> returned (Option)
    itA,       \* an Iter over v (Option)
    itB,       \* a second Iter over v (Option)
    outA,      \* the items itA has yielded so far
    outB,      \* the items itB has yielded so far
    endA,      \* itA.next() has returned None
    endB,      \* itB.next() has returned None
    \* ---- huffman.rs
    wbits,     \* width in bits of the count type
    counts,    \* the frequency table given to HuffmanTree::new
    heap,      \* the BinaryHeap<Node> of HuffmanTree::new
    tree,      \* the HuffmanTree returned (Option): [elements, nodes]
    enc,       \* HuffmanEncoder.map (Option)
    dec,       \* HuffmanDecoder.map (Option)
    best,      \* reference: the least weighted length of a prefix code over counts
    mode,      \* which bit source the running decode reads
    sym,       \* round trip: the symbol whose codeword is decoded
    idx,       \* decode: the local idx
    consumed,  \* decode: items taken from the bit source by this call
    result,    \* decode: the value returned (Option)
    sent,      \* stream: the symbols whose codewords were pushed into v
    recvd      \* stream: per finished decode call, [value, used]

bvVars == <<v, cap, bits, src, rest, last, bytes>>
itVars == <<itA, itB, outA, outB, endA, endB>>
huffVars == <<wbits, counts, heap, tree, enc, dec, best>>
decVars == <<mode, sym, idx, consumed, result>>
strVars == <<sent, recvd>>
vars == <<pc, bvVars, itVars, huffVars, decVars, strVars>>

\* ------------------------------------------------------------------ bounds
MaxBits == 9       \* SpecBits: pushes into one BitVec
MaxCap == 1        \* SpecBits: the capacity asked of with_capacity
MaxSyms == 4       \* Spec: symbols of an enumerated frequency table
MaxStream == 3     \* SpecStream: codewords pushed into one stream

\* ------------------------------------------------------------- bit_vec.rs
BITS == 8

Bool(x) == x = 1

\* (b >> i) & 1 on a u8
BitAt(b, i) == (b \div (2 ^ i)) % 2

\* b ^ (1 << i) on a u8
XorBit(b, i) == IF BitAt(b, i) = 1 THEN b - 2 ^ i ELSE (b + 2 ^ i) % 256

byte_pos(index) == index \div BITS

with_capacity(capacity) == [bit |-> BITS, data |-> <<>>]

reserved(capacity) == byte_pos(capacity + BITS - 1)

new == with_capacity(0)

\* mutant of len: counts the final byte as full
len_whole_bytes(bv) == Len(bv.data) * BITS

len(bv) == Len(bv.data) * BITS + bv.bit - BITS

\* mutant of push: packs most-significant-bit first
push_msb_first(bv, value) ==
    LET b1 == IF bv.bit = BITS
              THEN [bit |-> 0, data |-> Append(bv.data, 0)]
              ELSE bv
        b2 == IF value
              THEN [b1 EXCEPT !.data[Len(b1.data)] = XorBit(@, BITS - 1 - b1.bit)]
              ELSE b1
    IN [b2 EXCEPT !.bit = @ + 1]

push(bv, value) ==
    LET b1 == IF bv.bit = BITS
              THEN [bit |-> 0, data |-> Append(bv.data, 0)]
              ELSE bv
        b2 == IF value
              THEN [b1 EXCEPT !.data[Len(b1.data)] = XorBit(@, b1.bit)]
              ELSE b1
    IN [b2 EXCEPT !.bit = @ + 1]

\* for bit in bits { v.push(bit) }
RECURSIVE PushAll(_, _)
PushAll(bv, bs) ==
    IF bs = <<>> THEN bv ELSE PushAll(push(bv, Head(bs)), Tail(bs))

\* impl From<&[bool]> for BitVec
FromBools(bs) == PushAll(with_capacity(Len(bs)), bs)

\* for i in 0..n { last.push((b >> i) & 1 == 1) }, from i on
RECURSIVE PushByte(_, _, _, _)
PushByte(bv, b, i, n) ==
    IF i >= n THEN bv ELSE PushByte(push(bv, Bool(BitAt(b, i))), b, i + 1, n)

\* mutant of split_rest: leaves rest.bit as it was
split_rest_keeps_bit(bv) ==
    IF bv.bit = BITS
    THEN <<bv, new>>
    ELSE LET b == bv.data[Len(bv.data)]
             popped == [bv EXCEPT !.data = SubSeq(bv.data, 1, Len(bv.data) - 1)]
             l == PushByte(with_capacity(8), b, 0, popped.bit)
         IN <<popped, l>>

split_rest(bv) ==
    IF bv.bit = BITS
    THEN <<bv, new>>
    ELSE LET b == bv.data[Len(bv.data)]
             popped == [bv EXCEPT !.data = SubSeq(bv.data, 1, Len(bv.data) - 1)]
             l == PushByte(with_capacity(8), b, 0, popped.bit)
         IN <<[popped EXCEPT !.bit = BITS], l>>

into_bytes(bv) == bv.data

iter(bv) == [pos |-> 0, last_bit |-> bv.bit, bit |-> 0, data |-> bv.data]

\* mutant of next: does not stop at last_bit in the final byte
next_ignores_last_bit(it) ==
    LET adv == it.bit = BITS
        i1 == IF adv THEN [it EXCEPT !.bit = 0, !.pos = @ + 1] ELSE it
    IN IF i1.pos = Len(i1.data)
       THEN [it |-> i1, item |-> <<>>]
       ELSE [it |-> [i1 EXCEPT !.bit = @ + 1],
             item |-> <<Bool(BitAt(i1.data[i1.pos + 1], i1.bit))>>]

\* Iter::next: [it |-> the iterator afterwards, item |-> Option<bool>]
next(it) ==
    LET adv == it.bit = BITS
               \/ (it.pos + 1 = Len(it.data) /\ it.bit = it.last_bit)
        i1 == IF adv THEN [it EXCEPT !.bit = 0, !.pos = @ + 1] ELSE it
    IN IF i1.pos = Len(i1.data)
       THEN [it |-> i1, item |-> <<>>]
       ELSE [it |-> [i1 EXCEPT !.bit = @ + 1],
             item |-> <<Bool(BitAt(i1.data[i1.pos + 1], i1.bit))>>]

\* Vec::from_iter(it): every item the iterator yields before its first None
RECURSIVE Collect(_)
Collect(it) ==
    LET r == next(it)
    IN IF r.item = <<>> THEN <<>> ELSE <<r.item[1]>> \o Collect(r.it)

IsPrefix(a, b) == Len(a) <= Len(b) /\ \A i \in 1..Len(a) : a[i] = b[i]

\* ------------------------------------------------------- BitVec operations
NoHuff ==
    /\ wbits = 0 /\ counts = <<>> /\ heap = {} /\ tree = <<>>
    /\ enc = <<>> /\ dec = <<>> /\ best = 0
NoDecode ==
    /\ mode = "none" /\ sym = 0 /\ idx = 0 /\ consumed = 0 /\ result = <<>>
NoStream == sent = <<>> /\ recvd = <<>>
NoIter ==
    /\ itA = <<>> /\ itB = <<>> /\ outA = <<>> /\ outB = <<>>
    /\ endA = FALSE /\ endB = FALSE
NoSplit == src = <<>> /\ rest = <<>> /\ last = <<>> /\ bytes = <<>>

InitBits ==
    /\ pc = "build"
    /\ \E c \in 0..MaxCap : v = with_capacity(c) /\ cap = reserved(c)
    /\ bits = <<>>
    /\ NoSplit /\ NoIter /\ NoHuff /\ NoDecode /\ NoStream

Push(b) ==
    /\ pc = "build"
    /\ Len(bits) < MaxBits
    /\ v' = push(v, b)
    /\ bits' = Append(bits, b)
    /\ UNCHANGED <<pc, cap, src, rest, last, bytes, itVars, huffVars, decVars, strVars>>

SplitRest ==
    /\ pc = "build"
    /\ LET r == split_rest(v)
       IN /\ src' = <<v>>
          /\ rest' = <<r[1]>>
          /\ last' = <<r[2]>>
    /\ pc' = "split"
    /\ UNCHANGED <<v, cap, bits, bytes, itVars, huffVars, decVars, strVars>>

\* the caller goes on with the first component
KeepRest ==
    /\ pc = "split"
    /\ v' = rest[1]
    /\ bits' = SubSeq(bits, 1, BITS * (Len(bits) \div BITS))
    /\ src' = <<>> /\ rest' = <<>> /\ last' = <<>>
    /\ pc' = "build"
    /\ UNCHANGED <<cap, bytes, itVars, huffVars, decVars, strVars>>

\* the caller goes on with the second component
KeepLast ==
    /\ pc = "split"
    /\ v' = last[1]
    /\ bits' = SubSeq(bits, BITS * (Len(bits) \div BITS) + 1, Len(bits))
    /\ cap' = reserved(8)
    /\ src' = <<>> /\ rest' = <<>> /\ last' = <<>>
    /\ pc' = "build"
    /\ UNCHANGED <<bytes, itVars, huffVars, decVars, strVars>>

IntoBytes ==
    /\ pc = "build"
    /\ bytes' = <<into_bytes(v)>>
    /\ pc' = "bytes"
    /\ UNCHANGED <<v, cap, bits, src, rest, last, itVars, huffVars, decVars, strVars>>

IterA ==
    /\ pc = "build"
    /\ itA' = <<iter(v)>>
    /\ outA' = <<>> /\ endA' = FALSE
    /\ pc' = "iter"
    /\ UNCHANGED <<bvVars, itB, outB, endB, huffVars, decVars, strVars>>

IterB ==
    /\ pc = "iter"
    /\ itB' = <<iter(v)>>
    /\ outB' = <<>> /\ endB' = FALSE
    /\ UNCHANGED <<pc, bvVars, itA, outA, endA, huffVars, decVars, strVars>>

NextA ==
    /\ pc = "iter"
    /\ ~endA
    /\ LET r == next(itA[1])
       IN /\ itA' = <<r.it>>
          /\ outA' = outA \o r.item
          /\ endA' = (r.item = <<>>)
    /\ UNCHANGED <<pc, bvVars, itB, outB, endB, huffVars, decVars, strVars>>

NextB ==
    /\ pc = "iter"
    /\ itB # <<>>
    /\ ~endB
    /\ LET r == next(itB[1])
       IN /\ itB' = <<r.it>>
          /\ outB' = outB \o r.item
          /\ endB' = (r.item = <<>>)
    /\ UNCHANGED <<pc, bvVars, itA, outA, endA, huffVars, decVars, strVars>>

NextBits ==
    \/ \E b \in BOOLEAN : Push(b)
    \/ SplitRest
    \/ KeepRest
    \/ KeepLast
    \/ IntoBytes
    \/ IterA
    \/ IterB
    \/ NextA
    \/ NextB

SpecBits == InitBits /\ [][NextBits]_vars

\* --------------------------------------------------------- BitVec claims

\* C5: split_rest returns (rest, last) with rest.len() a multiple of 8,
\* last.len() < 8, and rest's bits followed by last's bits (as their
\* iterators yield them) are the bits of the original in push order; when
\* the original's length is a multiple of 8 (the empty BitVec included) rest
\* equals the original and last equals BitVec::new().
C5_SplitRest ==
    pc = "split" =>
        LET s == src[1]
            r == rest[1]
            l == last[1]
        IN /\ len(r) % BITS = 0
           /\ len(l) < BITS
           /\ Collect(iter(r)) \o Collect(iter(l)) = bits
           /\ len(r) + len(l) = Len(bits)
           /\ (Len(bits) % BITS = 0 => r = s /\ l = new)

\* C5 witness: a 9-bit BitVec was split into 8 bits and 1 set bit.
C5_Witness ==
    /\ pc = "split"
    /\ Len(bits) = 9 /\ bits[9] /\ ~bits[8]
    /\ len(rest[1]) = 8 /\ len(last[1]) = 1

\* C6: an iterator made by iter() yields the pushed bits in push order and
\* then None, never a bit of the unused part of the final byte; a fresh
\* iterator starts from the first bit whatever the others have done; the
\* BitVec is what it was when the iterators were made.
C6_Iter ==
    pc = "iter" =>
        /\ IsPrefix(outA, bits)
        /\ (endA => outA = bits)
        /\ (Len(outA) = Len(bits) => next(itA[1]).item = <<>>)
        /\ itA[1].data = v.data /\ itA[1].last_bit = v.bit
        /\ Collect(iter(v)) = bits
        /\ itB # <<>> =>
              /\ IsPrefix(outB, bits)
              /\ (endB => outB = bits)
              /\ (Len(outB) = Len(bits) => next(itB[1]).item = <<>>)
              /\ itB[1].data = v.data /\ itB[1].last_bit = v.bit

\* C6 witness: over 9 bits (one bit in the final byte) the first iterator
\* has yielded all 9 and then None while the second has yielded 3.
C6_Witness ==
    /\ pc = "iter"
    /\ Len(bits) = 9 /\ bits[9] /\ ~bits[1]
    /\ endA /\ outA = bits
    /\ itB # <<>> /\ Len(outB) = 3 /\ ~endB

\* C7: len() is the number of bits pushed, whatever their values and
\* whatever capacity the BitVec was made with, across byte boundaries;
\* the subtraction in len() does not go below zero.
C7_Len ==
    /\ len(v) = Len(bits)
    /\ Len(v.data) * BITS + v.bit >= BITS

\* C7 witness: 9 bits pushed into a BitVec made with a capacity of 1.
C7_Witness ==
    /\ pc = "build" /\ cap = 1
    /\ Len(bits) = 9 /\ len(v) = 9 /\ Len(v.data) = 2

\* C8: into_bytes returns ceil(k / 8) bytes; bit (i mod 8) of byte (i div 8),
\* from the least significant, is the i-th bit held; the unused high bits of
\* the final byte are zero.
C8_IntoBytes ==
    pc = "bytes" =>
        LET out == bytes[1]
            k == Len(bits)
        IN /\ Len(out) = (k + BITS - 1) \div BITS
           /\ \A i \in 0..(k - 1) :
                 Bool(BitAt(out[(i \div BITS) + 1], i % BITS)) = bits[i + 1]
           /\ \A i \in k..(BITS * Len(out) - 1) :
                 BitAt(out[(i \div BITS) + 1], i % BITS) = 0

\* C8 witness: 9 bits, not all equal, packed into 2 bytes.
C8_Witness ==
    /\ pc = "bytes"
    /\ Len(bits) = 9 /\ bits[9] /\ bits[2] /\ ~bits[1] /\ ~bits[8]
    /\ Len(bytes[1]) = 2

\* ------------------------------------------------------------- huffman.rs
\* Node.count is a u128. Sums are taken modulo 2 ^ w, with w the width the
\* run was started with: CountBits for the enumerated tables, so that sums
\* beyond the width are reached, TestBits for the tables of the unit tests,
\* whose sums stay within the width as they do within 128 bits.
CountBits == 2
TestBits == 8

\* the tables of tests::encode_uniform, encode_2 and encode_decode
TestTables == {<<1, 1, 1, 1>>, <<1, 2, 4, 8>>, <<10, 100, 20, 50, 60, 10>>}

Tables == UNION {[1..n -> 0..(2 ^ CountBits - 1)] : n \in 2..MaxSyms}

Inputs ==
    {[w |-> CountBits, c |-> t] : t \in Tables}
        \cup {[w |-> TestBits, c |-> t] : t \in TestTables}

\* Node { count, value: Some(value), left: None, right: None }
Leaf(value, count) ==
    [count |-> count, value |-> <<value>>, left |-> <<>>, right |-> <<>>]

\* Node { count, value: None, left: Some(left), right: Some(right) }
Parent(l, r, count) ==
    [count |-> count, value |-> <<>>, left |-> <<l>>, right |-> <<r>>]

\* mutant of merged_count: the right child's count is left out
merged_count_left_only(a, b, w) == a

\* left.count + right.count on the count type, where the build wraps
merged_count(a, b, w) == (a + b) % (2 ^ w)

\* left.count + right.count does not fit the count type
overflows(a, b, w) == a + b >= 2 ^ w

\* mutant of Greatest: Ord for Node not reversed, pop takes a maximal count
Greatest_not_reversed(h) == {n \in h : \A m \in h : m.count <= n.count}

\* BinaryHeap::pop under Ord for Node (reversed on count): a node of minimal
\* count; which one among equal counts is the heap's choice
Greatest(h) == {n \in h : \A m \in h : n.count <= m.count}

RECURSIVE make_encoder_no_pop(_, _, _)
\* mutant of make_encoder: current.pop() after the left child is left out
make_encoder_no_pop(node, map, current) ==
    IF node.value # <<>>
    THEN [map EXCEPT ![node.value[1] + 1] = FromBools(current)]
    ELSE LET m1 == IF node.left # <<>>
                   THEN make_encoder_no_pop(node.left[1], map, Append(current, TRUE))
                   ELSE map
         IN IF node.right # <<>>
            THEN make_encoder_no_pop(node.right[1], m1,
                                     Append(Append(current, TRUE), FALSE))
            ELSE m1

RECURSIVE make_encoder(_, _, _)
make_encoder(node, map, current) ==
    IF node.value # <<>>
    THEN [map EXCEPT ![node.value[1] + 1] = FromBools(current)]
    ELSE LET m1 == IF node.left # <<>>
                   THEN make_encoder(node.left[1], map, Append(current, TRUE))
                   ELSE map
         IN IF node.right # <<>>
            THEN make_encoder(node.right[1], m1, Append(current, FALSE))
            ELSE m1

Jump(right) == [tag |-> "Jump", arg |-> right]
Value(value) == [tag |-> "Value", arg |-> value]

RECURSIVE make_decoder_early_jump(_, _)
\* mutant of make_decoder: the jump target is taken before the left subtree
\* is laid out
make_decoder_early_jump(node, map) ==
    IF node.value # <<>>
    THEN Append(map, Value(node.value[1]))
    ELSE LET idx0 == Len(map)
             m0 == Append(map, Jump(0))
             m1 == [m0 EXCEPT ![idx0 + 1] = Jump(Len(m0))]
             m2 == IF node.left # <<>>
                   THEN make_decoder_early_jump(node.left[1], m1)
                   ELSE m1
         IN IF node.right # <<>>
            THEN make_decoder_early_jump(node.right[1], m2)
            ELSE m2

RECURSIVE make_decoder_no_patch(_, _)
\* mutant of make_decoder: map[idx] is never set to the right child's index
make_decoder_no_patch(node, map) ==
    IF node.value # <<>>
    THEN Append(map, Value(node.value[1]))
    ELSE LET m0 == Append(map, Jump(0))
             m1 == IF node.left # <<>>
                   THEN make_decoder_no_patch(node.left[1], m0)
                   ELSE m0
         IN IF node.right # <<>> THEN make_decoder_no_patch(node.right[1], m1) ELSE m1

RECURSIVE make_decoder(_, _)
make_decoder(node, map) ==
    IF node.value # <<>>
    THEN Append(map, Value(node.value[1]))
    ELSE LET idx0 == Len(map)
             m0 == Append(map, Jump(0))
             m1 == IF node.left # <<>> THEN make_decoder(node.left[1], m0) ELSE m0
             m2 == [m1 EXCEPT ![idx0 + 1] = Jump(Len(m1))]
         IN IF node.right # <<>> THEN make_decoder(node.right[1], m2) ELSE m2

\* HuffmanTree::encoder: the map of the HuffmanEncoder
encoder(t) == make_encoder(t.nodes, [i \in 1..t.elements |-> new], <<>>)

\* HuffmanTree::decoder: the map of the HuffmanDecoder
decoder(t) == make_decoder(t.nodes, <<>>)

\* HuffmanEncoder::encode
encode(map, value) == map[value + 1]

\* ------------------------------------------------------ reference optimum
RECURSIVE SumSeq(_)
SumSeq(q) == IF q = <<>> THEN 0 ELSE Head(q) + SumSeq(Tail(q))

\* the Kraft inequality for a vector of codeword lengths
Kraft(L) ==
    LET n == Len(L)
    IN SumSeq([i \in 1..n |-> 2 ^ (n - L[i])]) <= 2 ^ n

\* the length vectors of the prefix codes over n symbols, lengths up to n
KraftCodes(n) == {L \in [1..n -> 1..n] : Kraft(L)}

\* the weighted length of the code with lengths L under the counts c
Cost(c, L) == SumSeq([i \in 1..Len(c) |-> c[i] * L[i]])

\* the least weighted length of a prefix code over c, by trying them all
MinCost(c) ==
    LET S == {Cost(c, L) : L \in KraftCodes(Len(c))}
    IN CHOOSE m \in S : \A x \in S : m <= x

\* ------------------------------------------------------ Huffman operations
BitsIdle ==
    /\ v = new /\ cap = 0 /\ bits = <<>>
    /\ NoSplit /\ NoIter

\* HuffmanTree::new up to the merge loop: one leaf per count is on the heap
InitTree(inp) ==
    /\ pc = "new"
    /\ wbits = inp.w
    /\ counts = inp.c
    /\ heap = {Leaf(i - 1, inp.c[i]) : i \in 1..Len(inp.c)}
    /\ tree = <<>> /\ enc = <<>> /\ dec = <<>>
    /\ best = MinCost(inp.c)
    /\ NoDecode /\ NoStream /\ BitsIdle

Init == \E inp \in Inputs : InitTree(inp)

\* one turn of `while heap.len() > 1`: the two pops and the push; a sum
\* that does not fit the count type wraps around (arithmetic unchecked)
Merge ==
    /\ pc = "new"
    /\ Cardinality(heap) > 1
    /\ \E l \in Greatest(heap) :
         \E r \in Greatest(heap \ {l}) :
            heap' = (heap \ {l, r})
                      \cup {Parent(l, r, merged_count(l.count, r.count, wbits))}
    /\ UNCHANGED <<pc, wbits, counts, tree, enc, dec, best, bvVars, itVars, decVars, strVars>>

\* one turn of the loop where the build checks arithmetic: the sum does not
\* fit and HuffmanTree::new panics
MergeOverflow ==
    /\ pc = "new"
    /\ Cardinality(heap) > 1
    /\ \E l \in Greatest(heap) :
         \E r \in Greatest(heap \ {l}) :
            overflows(l.count, r.count, wbits)
    /\ pc' = "overflow_panic"
    /\ UNCHANGED <<huffVars, bvVars, itVars, decVars, strVars>>

\* the loop ends: HuffmanTree { elements, nodes: heap.pop().unwrap() }
Return ==
    /\ pc = "new"
    /\ Cardinality(heap) = 1
    /\ tree' = <<[elements |-> Len(counts), nodes |-> CHOOSE n \in heap : TRUE]>>
    /\ heap' = {}
    /\ pc' = "tree"
    /\ UNCHANGED <<wbits, counts, enc, dec, best, bvVars, itVars, decVars, strVars>>

Encoder ==
    /\ pc = "tree"
    /\ enc' = <<encoder(tree[1])>>
    /\ pc' = "enc"
    /\ UNCHANGED <<wbits, counts, heap, tree, dec, best, bvVars, itVars, decVars, strVars>>

Decoder ==
    /\ pc = "enc"
    /\ dec' = <<decoder(tree[1])>>
    /\ pc' = "ready"
    /\ UNCHANGED <<wbits, counts, heap, tree, enc, best, bvVars, itVars, decVars, strVars>>

\* decoder.decode(&mut encoder.encode(s).iter()) is called
RoundTrip(s) ==
    /\ pc = "ready"
    /\ mode' = "roundtrip"
    /\ sym' = s
    /\ itA' = <<iter(encode(enc[1], s))>>
    /\ idx' = 0 /\ consumed' = 0 /\ result' = <<>>
    /\ pc' = "decoding"
    /\ UNCHANGED <<huffVars, bvVars, itB, outA, outB, endA, endB, strVars>>

\* decode is called on a bit source of the caller's
DecodeAny ==
    /\ pc = "ready"
    /\ mode' = "any"
    /\ idx' = 0 /\ consumed' = 0 /\ result' = <<>>
    /\ pc' = "decoding"
    /\ UNCHANGED <<huffVars, bvVars, itVars, sym, strVars>>

\* self.map[idx] is read inside the table
InTable == idx < Len(dec[1])

\* mutant of DecodeLoop: the two branches of the `if` are exchanged
DecodeLoop_swapped(item) ==
    IF item = <<>>
    THEN /\ pc' = "unwrap_panic"
         /\ UNCHANGED <<idx, consumed>>
    ELSE /\ idx' = IF item[1] THEN dec[1][idx + 1].arg ELSE idx + 1
         /\ consumed' = consumed + 1
         /\ pc' = pc

\* one turn of `while let DecoderNode::Jump(right) = self.map[idx]`, with
\* item what input.next() returned
DecodeLoop(item) ==
    IF item = <<>>
    THEN /\ pc' = "unwrap_panic"
         /\ UNCHANGED <<idx, consumed>>
    ELSE /\ idx' = IF item[1] THEN idx + 1 ELSE dec[1][idx + 1].arg
         /\ consumed' = consumed + 1
         /\ pc' = pc

\* a turn of the loop reading the Iter
DecodeStepIter ==
    /\ pc = "decoding"
    /\ mode # "any"
    /\ InTable
    /\ dec[1][idx + 1].tag = "Jump"
    /\ LET r == next(itA[1])
       IN /\ itA' = <<r.it>>
          /\ DecodeLoop(r.item)
    /\ UNCHANGED <<huffVars, bvVars, itB, outA, outB, endA, endB, mode, sym, result, strVars>>

\* a turn of the loop reading the caller's bit source, which yields what it
\* likes
DecodeStepAny ==
    /\ pc = "decoding"
    /\ mode = "any"
    /\ InTable
    /\ dec[1][idx + 1].tag = "Jump"
    /\ \E item \in {<<>>, <<TRUE>>, <<FALSE>>} : DecodeLoop(item)
    /\ UNCHANGED <<huffVars, bvVars, itVars, mode, sym, result, strVars>>

\* the loop ends at a Value slot and decode returns it; an idx outside the
\* table makes the indexing panic
DecodeExit ==
    /\ pc = "decoding"
    /\ IF ~InTable
       THEN /\ pc' = "index_panic"
            /\ UNCHANGED <<result, recvd>>
       ELSE /\ dec[1][idx + 1].tag = "Value"
            /\ result' = <<dec[1][idx + 1].arg>>
            /\ IF mode = "stream"
               THEN /\ recvd' = Append(recvd, [value |-> dec[1][idx + 1].arg,
                                               used |-> consumed])
                    /\ pc' = "streaming"
               ELSE /\ recvd' = recvd
                    /\ pc' = "returned"
    /\ UNCHANGED <<huffVars, bvVars, itVars, mode, sym, idx, consumed, sent>>

Next ==
    \/ Merge
    \/ MergeOverflow
    \/ Return
    \/ Encoder
    \/ Decoder
    \/ \E s \in 0..(Len(counts) - 1) : RoundTrip(s)
    \/ DecodeAny
    \/ DecodeStepIter
    \/ DecodeStepAny
    \/ DecodeExit

Spec == Init /\ [][Next]_vars

\* ------------------------------------------------------- stream operations
NumSyms == Len(counts)

\* the bits of a codeword, as its iterator yields them
Codeword(s) == Collect(iter(encode(enc[1], s)))

\* tables for the stream: ties, zero counts and the tables of the unit tests
StreamTables ==
    {<<1, 1>>, <<1, 1, 1>>, <<0, 0, 1, 1>>, <<1, 1, 1, 1>>, <<1, 2, 4, 8>>,
     <<10, 100, 20, 50, 60, 10>>}

InitStream == \E t \in StreamTables : InitTree([w |-> TestBits, c |-> t])

\* for b in encoder.encode(s).iter() { v.push(b) }
Emit(s) ==
    /\ pc = "ready"
    /\ Len(sent) < MaxStream
    /\ v' = PushAll(v, Codeword(s))
    /\ bits' = bits \o Codeword(s)
    /\ sent' = Append(sent, s)
    /\ UNCHANGED <<pc, cap, src, rest, last, bytes, itVars, huffVars, decVars, recvd>>

\* let mut it = v.iter()
StartStream ==
    /\ pc = "ready"
    /\ itA' = <<iter(v)>>
    /\ mode' = "stream"
    /\ pc' = "streaming"
    /\ UNCHANGED <<bvVars, itB, outA, outB, endA, endB, huffVars, sym, idx, consumed,
                   result, strVars>>

\* decoder.decode(&mut it) is called once more
DecodeCall ==
    /\ pc = "streaming"
    /\ Len(recvd) < Len(sent)
    /\ idx' = 0 /\ consumed' = 0 /\ result' = <<>>
    /\ pc' = "decoding"
    /\ UNCHANGED <<bvVars, itVars, huffVars, mode, sym, strVars>>

NextStream ==
    \/ Merge
    \/ Return
    \/ Encoder
    \/ Decoder
    \/ \E s \in 0..(Len(counts) - 1) : Emit(s)
    \/ StartStream
    \/ DecodeCall
    \/ DecodeStepIter
    \/ DecodeExit

SpecStream == InitStream /\ [][NextStream]_vars

\* bits the iterator has passed
Passed(it) == it.pos * BITS + it.bit

\* C2: with the codewords of s1..sk pushed in order into one BitVec and
\* decode called k times on one iterator over it, the i-th call returns si
\* having taken exactly encode(si).len() bits, and after the k-th call the
\* iterator is exhausted.
C2_Stream ==
    mode = "stream" =>
        /\ pc \notin {"unwrap_panic", "index_panic"}
        /\ Len(recvd) <= Len(sent)
        /\ \A i \in 1..Len(recvd) :
              /\ recvd[i].value = sent[i]
              /\ recvd[i].used = len(encode(enc[1], sent[i]))
        /\ pc = "streaming" =>
              /\ Passed(itA[1]) = SumSeq([i \in 1..Len(recvd) |-> recvd[i].used])
              /\ (Len(recvd) = Len(sent) => next(itA[1]).item = <<>>)

\* C2 witness: the 9-bit stream of symbols 0, 1, 0 under [1, 2, 4, 8] was
\* decoded by three calls.
C2_Witness ==
    /\ mode = "stream" /\ pc = "streaming"
    /\ counts = <<1, 2, 4, 8>>
    /\ sent = <<0, 1, 0>> /\ Len(recvd) = 3
    /\ len(v) = 9

\* --------------------------------------------------------- Huffman claims
\* the sum of the input counts fits the count type
TotalFits == SumSeq(counts) < 2 ^ wbits

\* C1: for every symbol s of a table with N >= 2, decode over the iterator
\* of encode(s) returns s: it neither runs out of bits nor leaves the table.
C1_RoundTrip ==
    mode = "roundtrip" =>
        /\ pc \notin {"unwrap_panic", "index_panic"}
        /\ (pc = "returned" => result = <<sym>>)

\* C1 witness: symbol 5 of the table of tests::encode_decode came back from
\* its 5-bit codeword.
C1_Witness ==
    /\ mode = "roundtrip" /\ pc = "returned"
    /\ counts = <<10, 100, 20, 50, 60, 10>>
    /\ sym = 5 /\ result = <<5>> /\ consumed = 5

\* C3: the encoder holds N codewords and for any two distinct symbols the
\* codeword of one is not a prefix of the codeword of the other.
C3_PrefixFree ==
    pc = "enc" =>
        /\ Len(enc[1]) = NumSyms
        /\ \A i \in 0..(NumSyms - 1) : \A j \in 0..(NumSyms - 1) :
              i # j => ~IsPrefix(Codeword(i), Codeword(j))

\* C3 witness: an encoder over 4 symbols with codewords of 1, 2 and 3 bits.
C3_Witness ==
    /\ pc = "enc" /\ NumSyms = 4
    /\ len(encode(enc[1], 0)) = 3 /\ len(encode(enc[1], 2)) = 2
    /\ len(encode(enc[1], 3)) = 1

\* the codeword lengths of the encoder, by symbol
Lengths == [i \in 1..NumSyms |-> len(encode(enc[1], i - 1))]

Optimal == Kraft(Lengths) /\ Cost(counts, Lengths) <= best

TestLengths ==
    /\ (counts = <<1, 1, 1, 1>> => Lengths = <<2, 2, 2, 2>>)
    /\ (counts = <<1, 2, 4, 8>> => Lengths = <<3, 3, 2, 1>>)

\* C4 as stated: for any table, the weighted length of the encoder's
\* codewords is at most that of every prefix code over the same counts, and
\* the two test tables get the lengths [2,2,2,2] and [3,3,2,1].
C4_Original == pc = "enc" => Optimal /\ TestLengths

\* C4 amended: the same for every table whose counts sum to a value the
\* count type holds.
C4_Optimal == (pc = "enc" /\ TotalFits) => Optimal /\ TestLengths

\* C4 witness: the encoder of [1, 2, 4, 8] with lengths [3, 3, 2, 1].
C4_Witness ==
    /\ pc = "enc" /\ TotalFits
    /\ counts = <<1, 2, 4, 8>> /\ Lengths = <<3, 3, 2, 1>>

RECURSIVE ExactSums(_)
\* every internal node holds the sum of its children's counts
ExactSums(n) ==
    n.value = <<>> =>
        /\ n.count = n.left[1].count + n.right[1].count
        /\ ExactSums(n.left[1])
        /\ ExactSums(n.right[1])

MergedExactly ==
    /\ pc # "overflow_panic"
    /\ \A n \in heap : ExactSums(n)
    /\ tree # <<>> =>
          /\ ExactSums(tree[1].nodes)
          /\ tree[1].nodes.count = SumSeq(counts)

\* C9 as stated: for every table of counts the count type holds, every
\* internal node holds the exact sum of its children, the root the sum of
\* all counts, and no merge wraps around or aborts the construction.
C9_Original == MergedExactly

\* C9 amended: the same for every table whose counts sum to a value the
\* count type holds.
C9_ExactSums == TotalFits => MergedExactly

\* C9 witness: the tree of [3, 0, 0, 0], whose counts sum to the largest
\* value of the width, was built with a root count of 3.
C9_Witness ==
    /\ tree # <<>> /\ TotalFits
    /\ counts = <<3, 0, 0, 0>> /\ wbits = CountBits
    /\ tree[1].nodes.count = 3

\* the decoder table is the preorder layout of a tree of N leaves
TableShape ==
    dec # <<>> =>
        LET d == dec[1]
        IN /\ Len(d) = 2 * NumSyms - 1
           /\ \A i \in 0..(Len(d) - 1) :
                 d[i + 1].tag = "Jump" =>
                     i + 1 < d[i + 1].arg /\ d[i + 1].arg < Len(d)

DecodeBounds ==
    /\ pc # "index_panic"
    /\ pc = "decoding" => InTable /\ consumed <= idx
    /\ pc = "unwrap_panic" => InTable /\ dec[1][idx + 1].tag = "Jump"
    /\ pc = "returned" =>
          /\ result[1] \in 0..(NumSyms - 1)
          /\ 1 <= consumed /\ consumed <= NumSyms - 1

\* C10: on any bit source the decode index starts at 0, grows with every
\* bit consumed and stays inside the table, every Jump at i pointing to a j
\* with i + 1 < j < table length = 2N - 1; decode returns a symbol below N
\* after 1 to N - 1 bits, or fails with the source exhausted at a Jump slot.
C10_Decode ==
    /\ [](TableShape /\ DecodeBounds)
    /\ [][(pc = "ready" /\ pc' = "decoding" => idx' = 0)
           /\ (consumed' = consumed + 1 => idx' > idx)]_vars

\* C10 witness: on a caller's bit source a decode over 4 symbols returned
\* after 3 bits.
C10_Witness ==
    /\ mode = "any" /\ pc = "returned"
    /\ NumSyms = 4 /\ consumed = 3 /\ idx = 6

====
